---- MODULE Spec2Model ----
(***************************************************************************)
(* Booking engine of the Appointment (Schedly) API: BookingService of      *)
(* services/api/src/services/booking.service.ts and the controllers in     *)
(* front of it.  Instants are minutes since 1970-01-01T00:00Z, calendar    *)
(* dates are days since 1970-01-01, wall-clock strings are sequences of    *)
(* characters.                                                             *)
(***************************************************************************)
EXTENDS Integers, Sequences, FiniteSets, TLC

VARIABLES
    rules,          \* rows of AvailabilityRule, in the order the store returns them
    exceptions,     \* rows of AvailabilityException, in the order the store returns them
    appointments,   \* rows of Appointment; the row's id is its index
    now,            \* the clock read by DateTime.now()
    inflight        \* rows of createAppointment calls between their read and their write

vars == <<rules, exceptions, appointments, now, inflight>>

----------------------------------------------------------------------------
(* Bounds of the model *)

MaxRules == 2
MaxExceptions == 1
MaxAppointments == 2
MaxInflight == 2
MaxDayExceptions == 2
MaxIterations == 20

----------------------------------------------------------------------------
(* Values of the runtime *)

NoStaff == "none"       \* staffId omitted from the request, NULL in the row
NoString == <<>>        \* a string that is undefined, null or "" (all falsy)

MinutesPerDay == 1440
MinutesPerHour == 60

DEFAULT_STEP_MINUTES == 15
DefaultTake == 50           \* take: params.limit ?? 50
NoLimit == <<>>             \* params.limit undefined; <<n>> is the limit n

----------------------------------------------------------------------------
(* Strings: "HH:MM" is <<"H","H",":","M","M">> *)

Digits == <<"0", "1", "2", "3", "4", "5", "6", "7", "8", "9">>

IsDigit(c) == \E i \in 1..10 : Digits[i] = c

DigitValue(c) == (CHOOSE i \in 1..10 : Digits[i] = c) - 1

\* String.prototype.split(":")
RECURSIVE SplitColon(_)
SplitColon(s) ==
    IF \A i \in 1..Len(s) : s[i] # ":"
    THEN <<s>>
    ELSE LET k == CHOOSE i \in 1..Len(s) : s[i] = ":" /\ \A j \in 1..(i - 1) : s[j] # ":"
         IN  <<SubSeq(s, 1, k - 1)>> \o SplitColon(SubSeq(s, k + 1, Len(s)))

RECURSIVE DecimalValue(_)
DecimalValue(s) ==
    IF Len(s) = 0 THEN 0
    ELSE 10 * DecimalValue(SubSeq(s, 1, Len(s) - 1)) + DigitValue(s[Len(s)])

NaN == [isNaN |-> TRUE, value |-> 0]

Num(n) == [isNaN |-> FALSE, value |-> n]

\* Number(v) for the strings split() yields: "" is 0, a run of decimal digits
\* (with an optional sign) is its value, anything else is NaN.
Number(s) ==
    IF Len(s) = 0 THEN Num(0)
    ELSE IF s[1] \in {"-", "+"}
         THEN IF Len(s) > 1 /\ \A i \in 2..Len(s) : IsDigit(s[i])
              THEN Num((IF s[1] = "-" THEN -1 ELSE 1) * DecimalValue(Tail(s)))
              ELSE NaN
         ELSE IF \A i \in 1..Len(s) : IsDigit(s[i])
              THEN Num(DecimalValue(s))
              ELSE NaN

\* Character order of the store's text comparison (orderBy startTime asc).
CharOrder == <<"+", "-", "0", "1", "2", "3", "4", "5", "6", "7", "8", "9", ":", "x">>

CharCode(c) == CHOOSE i \in 1..Len(CharOrder) : CharOrder[i] = c

RECURSIVE StringLess(_, _)
StringLess(a, b) ==
    IF Len(b) = 0 THEN FALSE
    ELSE IF Len(a) = 0 THEN TRUE
    ELSE IF a[1] # b[1] THEN CharCode(a[1]) < CharCode(b[1])
    ELSE StringLess(Tail(a), Tail(b))

----------------------------------------------------------------------------
(* Time: luxon DateTime over fixed-offset zones *)

ZoneOffset(timezone) == IF timezone = "Asia/Tokyo" THEN 540 ELSE 0

\* An ISO-8601 text is [valid, day, minute, hasOffset, offset]: the calendar
\* date and wall-clock minute it spells, and the UTC offset it carries if any.
InvalidISO == [valid |-> FALSE, day |-> 0, minute |-> 0, hasOffset |-> FALSE, offset |-> 0]

ISODate(d) == [valid |-> TRUE, day |-> d, minute |-> 0, hasOffset |-> FALSE, offset |-> 0]

ISOLocal(d, m) == [valid |-> TRUE, day |-> d, minute |-> m, hasOffset |-> FALSE, offset |-> 0]

\* DateTime.fromISO(text, { zone }): the instant, read in the zone unless the
\* text carries its own offset.
fromISO(text, timezone) ==
    text.day * MinutesPerDay + text.minute
        - (IF text.hasOffset THEN text.offset ELSE ZoneOffset(timezone))

\* dt.toISODate() in the zone
toISODate(instant, timezone) ==
    ISODate((instant + ZoneOffset(timezone)) \div MinutesPerDay)

\* dt.toISO() in the zone
toISO(instant, timezone) ==
    [valid |-> TRUE,
     day |-> (instant + ZoneOffset(timezone)) \div MinutesPerDay,
     minute |-> (instant + ZoneOffset(timezone)) % MinutesPerDay,
     hasOffset |-> TRUE,
     offset |-> ZoneOffset(timezone)]

\* dt.startOf("day") in the zone
startOfDay(instant, timezone) ==
    ((instant + ZoneOffset(timezone)) \div MinutesPerDay) * MinutesPerDay
        - ZoneOffset(timezone)

\* dt.weekday: 1 = Monday .. 7 = Sunday (1970-01-01 was a Thursday)
weekday(instant, timezone) ==
    ((((instant + ZoneOffset(timezone)) \div MinutesPerDay) + 3) % 7) + 1

NoInterval == [ok |-> FALSE, start |-> 0, end |-> 0]

\* The last statement of intervalFromStrings: null unless end > start
IntervalBetween(start, end) ==
    IF end <= start THEN NoInterval ELSE [ok |-> TRUE, start |-> start, end |-> end]

\* day.set({ hour, minute }) adds the fields to the day's midnight without
\* range validation.
IntervalOfNumbers(day, startHour, startMinute, endHour, endMinute) ==
    IF startHour.isNaN \/ startMinute.isNaN \/ endHour.isNaN \/ endMinute.isNaN
    THEN NoInterval
    ELSE IntervalBetween(day + startHour.value * MinutesPerHour + startMinute.value,
                         day + endHour.value * MinutesPerHour + endMinute.value)

\* The second element of the destructured array: undefined when the string has
\* no ":", which Number.isNaN lets pass and set() ignores.
MinutePart(parts) == IF Len(parts) >= 2 THEN Number(parts[2]) ELSE Num(0)

IntervalOfParts(day, s, e) ==
    IntervalOfNumbers(day, Number(s[1]), MinutePart(s), Number(e[1]), MinutePart(e))

intervalFromStrings(day, startTime, endTime) ==
    IntervalOfParts(day, SplitColon(startTime), SplitColon(endTime))

FakeDay == 18262 * MinutesPerDay     \* DateTime.fromISO("2020-01-01")

\* assertValidTimeRange: TRUE when it returns, FALSE when it throws
assertValidTimeRange(startTime, endTime) ==
    intervalFromStrings(FakeDay, startTime, endTime).ok

\* overlaps that takes any two different staffIds, an absent one included, for
\* different calendars
overlaps_StaffMismatch(start, end, existingStart, existingEnd, targetStaffId, existingStaffId) ==
    IF existingStaffId # targetStaffId
    THEN FALSE
    ELSE start < existingEnd /\ end > existingStart

\* overlaps that counts intervals meeting at an endpoint as overlapping
overlaps_Touching(start, end, existingStart, existingEnd, targetStaffId, existingStaffId) ==
    IF targetStaffId # NoStaff /\ existingStaffId # NoStaff /\ existingStaffId # targetStaffId
    THEN FALSE
    ELSE start <= existingEnd /\ end >= existingStart

overlaps(start, end, existingStart, existingEnd, targetStaffId, existingStaffId) ==
    IF targetStaffId # NoStaff /\ existingStaffId # NoStaff /\ existingStaffId # targetStaffId
    THEN FALSE
    ELSE start < existingEnd /\ end > existingStart

----------------------------------------------------------------------------
(* Rows the modelled calls never write: users, businesses, services *)

userClient == {"C1", "C2"}

userBusiness == {"O1", "O2"}

business ==
    [id \in {"B1", "B2"} |->
        IF id = "B1" THEN [ownerId |-> "O1", timezone |-> "Asia/Tokyo"]
                     ELSE [ownerId |-> "O2", timezone |-> "Asia/Tokyo"]]

service ==
    [id \in {"S1", "S2", "S3"} |->
        CASE id = "S1" -> [businessId |-> "B1", durationMin |-> 60, isActive |-> TRUE]
          [] id = "S2" -> [businessId |-> "B1", durationMin |-> 60, isActive |-> FALSE]
          [] id = "S3" -> [businessId |-> "B2", durationMin |-> 60, isActive |-> TRUE]]

\* StaffMembership rows, [businessId, userId]: no call of the program writes
\* the table
staffMembership == {}

----------------------------------------------------------------------------
(* Results: a call returns ("ok") or throws a Nest exception *)

Ok == "ok"
NotFound == "not_found"             \* NotFoundException
BadRequest == "bad_request"         \* BadRequestException
Forbidden == "forbidden"            \* ForbiddenException
Conflict == "conflict"              \* ConflictException (thrown nowhere)

----------------------------------------------------------------------------
(* Reads *)

\* assertBusinessAccess: the status it ends with (Ok when it returns)
assertBusinessAccess(businessId, actorId) ==
    IF businessId \notin DOMAIN business THEN NotFound
    ELSE IF actorId # "" /\ business[businessId].ownerId # actorId THEN Forbidden
    ELSE Ok

\* Stable insertion of a rule row into rows sorted by startTime as text.
RECURSIVE InsertByStartTime(_, _)
InsertByStartTime(sorted, row) ==
    IF Len(sorted) = 0 THEN <<row>>
    ELSE IF StringLess(row.startTime, Head(sorted).startTime)
         THEN <<row>> \o sorted
         ELSE <<Head(sorted)>> \o InsertByStartTime(Tail(sorted), row)

RECURSIVE OrderByStartTime(_)
OrderByStartTime(rows) ==
    IF Len(rows) = 0 THEN <<>>
    ELSE InsertByStartTime(OrderByStartTime(SubSeq(rows, 1, Len(rows) - 1)), rows[Len(rows)])

RECURSIVE MapIntervals(_, _)
MapIntervals(day, rows) ==
    IF Len(rows) = 0 THEN <<>>
    ELSE (IF intervalFromStrings(day, Head(rows).startTime, Head(rows).endTime).ok
          THEN <<intervalFromStrings(day, Head(rows).startTime, Head(rows).endTime)>>
          ELSE <<>>)
         \o MapIntervals(day, Tail(rows))

\* The day's appointments without the filter on status
findDayAppointments_WithCancelled(businessId, day) ==
    SelectSeq(appointments,
              LAMBDA a : /\ a.businessId = businessId
                         /\ a.startAt >= day
                         /\ a.startAt < day + MinutesPerDay)

\* prisma.appointment.findMany of getDailyContext
findDayAppointments(businessId, day) ==
    SelectSeq(appointments,
              LAMBDA a : /\ a.businessId = businessId
                         /\ a.startAt >= day
                         /\ a.startAt < day + MinutesPerDay
                         /\ a.status # "CANCELLED")

\* availabilityRule.findMany of getDailyContext
findDayRules(businessId, dayOfWeek) ==
    OrderByStartTime(SelectSeq(rules,
        LAMBDA r : r.businessId = businessId /\ r.dayOfWeek = dayOfWeek))

\* availabilityException.findFirst of getDailyContext, as the rows it could return
findDayExceptions(businessId, day) ==
    SelectSeq(exceptions,
        LAMBDA x : x.businessId = businessId /\ x.date >= day /\ x.date < day + MinutesPerDay)

\* The intervals of a day with an exception, without the look at isClosed
ExceptionIntervals_IgnoresClosed(day, exception, ruleIntervals) ==
    IF exception.startTime # NoString /\ exception.endTime # NoString
    THEN MapIntervals(day, <<exception>>)
    ELSE ruleIntervals

\* The intervals of a day with an exception, the override added to the rules'
ExceptionIntervals_Union(day, exception, ruleIntervals) ==
    IF exception.isClosed THEN <<>>
    ELSE IF exception.startTime # NoString /\ exception.endTime # NoString
    THEN MapIntervals(day, <<exception>>) \o ruleIntervals
    ELSE ruleIntervals

\* The intervals of a day with an exception
ExceptionIntervals(day, exception, ruleIntervals) ==
    IF exception.isClosed THEN <<>>
    ELSE IF exception.startTime # NoString /\ exception.endTime # NoString
    THEN MapIntervals(day, <<exception>>)
    ELSE ruleIntervals

\* The intervals of a day: the exception's if there is one, else the rules'
ResolveIntervals(day, dayRules, dayExceptions) ==
    IF Len(dayExceptions) = 0 THEN MapIntervals(day, dayRules)
    ELSE ExceptionIntervals(day, Head(dayExceptions), MapIntervals(day, dayRules))

dayOfWeekOf(day, timezone) == IF weekday(day, timezone) = 7 THEN 0 ELSE weekday(day, timezone)

\* getDailyContext from its three queries on
DailyContextOf(businessId, timezone, day) ==
    [status |-> Ok, msg |-> "",
     intervals |-> ResolveIntervals(day, findDayRules(businessId, dayOfWeekOf(day, timezone)),
                                    findDayExceptions(businessId, day)),
     appointments |-> findDayAppointments(businessId, day),
     day |-> day, timezone |-> timezone]

\* getDailyContext: what it throws, or the day's intervals and appointments
getDailyContext(businessId, date) ==
    IF businessId \notin DOMAIN business
    THEN [status |-> NotFound, msg |-> "Negocio no encontrado"]
    ELSE IF ~date.valid
    THEN [status |-> BadRequest, msg |-> "Fecha invalida"]
    ELSE DailyContextOf(businessId, business[businessId].timezone,
                        startOfDay(fromISO(date, business[businessId].timezone),
                                   business[businessId].timezone))

\* One candidate of the while loop, a candidate a minute before now let through
SlotAt_StrictPast(candidateStart, candidateEnd, context, staffId) ==
    IF /\ ~(candidateStart < now - 1)
       /\ ~(\E i \in 1..Len(context.appointments) :
               overlaps(candidateStart, candidateEnd,
                        context.appointments[i].startAt, context.appointments[i].endAt,
                        staffId, context.appointments[i].staffId))
    THEN <<[startAt |-> toISO(candidateStart, context.timezone),
            endAt |-> toISO(candidateEnd, context.timezone)]>>
    ELSE <<>>

\* One candidate of the while loop: the slot pushed, if any
SlotAt(candidateStart, candidateEnd, context, staffId) ==
    IF /\ ~(candidateStart <= now - 1)
       /\ ~(\E i \in 1..Len(context.appointments) :
               overlaps(candidateStart, candidateEnd,
                        context.appointments[i].startAt, context.appointments[i].endAt,
                        staffId, context.appointments[i].staffId))
    THEN <<[startAt |-> toISO(candidateStart, context.timezone),
            endAt |-> toISO(candidateEnd, context.timezone)]>>
    ELSE <<>>

\* The while loop of getAvailability over one interval, from cursor on.
RECURSIVE SlotsFrom(_, _, _, _, _, _)
SlotsFrom(cursor, interval, serviceDuration, stepMinutes, context, staffId) ==
    IF cursor + serviceDuration <= interval.end
    THEN SlotAt(cursor, cursor + serviceDuration, context, staffId)
         \o SlotsFrom(cursor + stepMinutes, interval, serviceDuration, stepMinutes,
                      context, staffId)
    ELSE <<>>

\* The for loop of getAvailability over the intervals.
RECURSIVE SlotsOf(_, _, _, _, _)
SlotsOf(intervals, serviceDuration, stepMinutes, context, staffId) ==
    IF Len(intervals) = 0 THEN <<>>
    ELSE SlotsFrom(Head(intervals).start, Head(intervals), serviceDuration, stepMinutes,
                   context, staffId)
         \o SlotsOf(Tail(intervals), serviceDuration, stepMinutes, context, staffId)

\* The step without the default: an absent stepMinutes is a step of 0
EffectiveStep_NoDefault(stepMinutes) == stepMinutes

\* params.stepMinutes || DEFAULT_STEP_MINUTES; 0 stands for an absent
\* stepMinutes (both are falsy)
EffectiveStep(stepMinutes) == IF stepMinutes # 0 THEN stepMinutes ELSE DEFAULT_STEP_MINUTES

\* The while loop of getAvailability over one interval, from cursor on, counted:
\* whether its condition became false within fuel iterations, and after how many
RECURSIVE Iterations(_, _, _, _, _)
Iterations(cursor, interval, serviceDuration, stepMinutes, fuel) ==
    IF ~(cursor + serviceDuration <= interval.end) THEN [done |-> TRUE, count |-> 0]
    ELSE IF fuel = 0 THEN [done |-> FALSE, count |-> 0]
    ELSE [done |-> Iterations(cursor + stepMinutes, interval, serviceDuration,
                              stepMinutes, fuel - 1).done,
          count |-> 1 + Iterations(cursor + stepMinutes, interval, serviceDuration,
                                   stepMinutes, fuel - 1).count]

\* getAvailability once getDailyContext has answered
AvailabilityIn(businessId, params, context) ==
    IF context.status # Ok
    THEN [status |-> context.status, msg |-> context.msg, slots |-> <<>>]
    ELSE IF params.serviceId \notin DOMAIN service
    THEN [status |-> NotFound, msg |-> "Servicio no encontrado", slots |-> <<>>]
    ELSE IF service[params.serviceId].businessId # businessId
    THEN [status |-> BadRequest, msg |-> "El servicio no pertenece al negocio",
          slots |-> <<>>]
    ELSE [status |-> Ok, msg |-> "",
          slots |-> SlotsOf(context.intervals, service[params.serviceId].durationMin,
                            EffectiveStep(params.stepMinutes), context, params.staffId)]

getAvailability(businessId, params) ==
    AvailabilityIn(businessId, params, getDailyContext(businessId, params.date))

NoRow == [businessId |-> "", serviceId |-> "", customerId |-> "", staffId |-> NoStaff,
          startAt |-> 0, endAt |-> 0, status |-> ""]

\* createAppointment that asks only for the start to lie inside an interval
CreateIn_StartInside(input, customerId, start, end, context) ==
    IF context.status # Ok
    THEN [status |-> context.status, msg |-> context.msg, row |-> NoRow]
    ELSE IF ~(\E i \in 1..Len(context.intervals) :
                start >= context.intervals[i].start /\ start < context.intervals[i].end)
    THEN [status |-> BadRequest,
          msg |-> "Horario fuera de la disponibilidad del negocio", row |-> NoRow]
    ELSE IF \E i \in 1..Len(context.appointments) :
                overlaps(start, end, context.appointments[i].startAt,
                         context.appointments[i].endAt, input.staffId,
                         context.appointments[i].staffId)
    THEN [status |-> BadRequest, msg |-> "Existe otra cita en ese horario",
          row |-> NoRow]
    ELSE [status |-> Ok, msg |-> "",
          row |-> [businessId |-> input.businessId, serviceId |-> input.serviceId,
                   customerId |-> customerId, staffId |-> input.staffId,
                   startAt |-> start, endAt |-> end, status |-> "BOOKED"]]

\* createAppointment from getDailyContext's answer to its write
CreateIn(input, customerId, start, end, context) ==
    IF context.status # Ok
    THEN [status |-> context.status, msg |-> context.msg, row |-> NoRow]
    ELSE IF ~(\E i \in 1..Len(context.intervals) :
                start >= context.intervals[i].start /\ end <= context.intervals[i].end)
    THEN [status |-> BadRequest,
          msg |-> "Horario fuera de la disponibilidad del negocio", row |-> NoRow]
    ELSE IF \E i \in 1..Len(context.appointments) :
                overlaps(start, end, context.appointments[i].startAt,
                         context.appointments[i].endAt, input.staffId,
                         context.appointments[i].staffId)
    THEN [status |-> BadRequest, msg |-> "Existe otra cita en ese horario",
          row |-> NoRow]
    ELSE [status |-> Ok, msg |-> "",
          row |-> [businessId |-> input.businessId, serviceId |-> input.serviceId,
                   customerId |-> customerId, staffId |-> input.staffId,
                   startAt |-> start, endAt |-> end, status |-> "BOOKED"]]

\* createAppointment from the parsed start on
CreateAt(input, customerId, timezone, start) ==
    CreateIn(input, customerId, start, start + service[input.serviceId].durationMin,
             getDailyContext(input.businessId, toISODate(start, timezone)))

\* createAppointment up to its write: what it throws, or the row it is about
\* to create.
createAppointmentRead(input, customerId) ==
    IF input.businessId \notin DOMAIN business
    THEN [status |-> NotFound, msg |-> "Negocio no encontrado", row |-> NoRow]
    ELSE IF input.serviceId \notin DOMAIN service
    THEN [status |-> NotFound, msg |-> "Servicio no encontrado", row |-> NoRow]
    ELSE IF service[input.serviceId].businessId # input.businessId
    THEN [status |-> BadRequest, msg |-> "El servicio no pertenece al negocio indicado",
          row |-> NoRow]
    ELSE IF customerId \notin userClient
    THEN [status |-> NotFound, msg |-> "Cliente no encontrado", row |-> NoRow]
    ELSE IF input.staffId # NoStaff /\ input.staffId \notin userBusiness
    THEN [status |-> NotFound, msg |-> "Staff no encontrado", row |-> NoRow]
    ELSE IF ~input.startAt.valid
    THEN [status |-> BadRequest, msg |-> "Fecha de inicio invalida", row |-> NoRow]
    ELSE CreateAt(input, customerId, business[input.businessId].timezone,
                  fromISO(input.startAt, business[input.businessId].timezone))

\* cancelAppointment without the check that a client actor booked the appointment
cancelAppointmentResult_AnyClient(appts, id, actor) ==
    IF id \notin 1..Len(appts)
    THEN [status |-> NotFound, msg |-> "Cita no encontrada", update |-> FALSE]
    ELSE IF appts[id].status = "CANCELLED"
    THEN [status |-> Ok, msg |-> "", update |-> FALSE]
    ELSE IF actor.kind = "business"
            /\ assertBusinessAccess(appts[id].businessId, actor.id) # Ok
    THEN [status |-> assertBusinessAccess(appts[id].businessId, actor.id),
          msg |-> "assertBusinessAccess", update |-> FALSE]
    ELSE [status |-> Ok, msg |-> "", update |-> TRUE]

\* cancelAppointment that authorizes the actor before it looks at the status
cancelAppointmentResult_AuthFirst(appts, id, actor) ==
    IF id \notin 1..Len(appts)
    THEN [status |-> NotFound, msg |-> "Cita no encontrada", update |-> FALSE]
    ELSE IF actor.kind = "client" /\ appts[id].customerId # actor.id
    THEN [status |-> Forbidden, msg |-> "Solo el cliente que reservo puede cancelar",
          update |-> FALSE]
    ELSE IF actor.kind = "business"
            /\ assertBusinessAccess(appts[id].businessId, actor.id) # Ok
    THEN [status |-> assertBusinessAccess(appts[id].businessId, actor.id),
          msg |-> "assertBusinessAccess", update |-> FALSE]
    ELSE IF appts[id].status = "CANCELLED"
    THEN [status |-> Ok, msg |-> "", update |-> FALSE]
    ELSE [status |-> Ok, msg |-> "", update |-> TRUE]

\* cancelAppointment on the rows appts: what it throws or returns, and whether
\* it updates the row
cancelAppointmentResult(appts, id, actor) ==
    IF id \notin 1..Len(appts)
    THEN [status |-> NotFound, msg |-> "Cita no encontrada", update |-> FALSE]
    ELSE IF appts[id].status = "CANCELLED"
    THEN [status |-> Ok, msg |-> "", update |-> FALSE]
    ELSE IF actor.kind = "client" /\ appts[id].customerId # actor.id
    THEN [status |-> Forbidden, msg |-> "Solo el cliente que reservo puede cancelar",
          update |-> FALSE]
    ELSE IF actor.kind = "business"
            /\ assertBusinessAccess(appts[id].businessId, actor.id) # Ok
    THEN [status |-> assertBusinessAccess(appts[id].businessId, actor.id),
          msg |-> "assertBusinessAccess", update |-> FALSE]
    ELSE [status |-> Ok, msg |-> "", update |-> TRUE]

\* The rows after cancelAppointment(id, actor) on the rows appts
cancelAppointmentRows(appts, id, actor) ==
    IF cancelAppointmentResult(appts, id, actor).update
    THEN [appts EXCEPT ![id].status = "CANCELLED"]
    ELSE appts

\* assertBusinessExists: the status it ends with (Ok when it returns)
assertBusinessExists(businessId) ==
    IF businessId \notin DOMAIN business THEN NotFound ELSE Ok

\* The where of listAppointments: the ids of the rows it matches.  An absent
\* customerId or businessId is "" (both are falsy).
listAppointmentsWhere(appts, params) ==
    { id \in 1..Len(appts) :
        /\ appts[id].status # "CANCELLED"
        /\ params.customerId # "" => appts[id].customerId = params.customerId
        /\ params.businessId # "" => appts[id].businessId = params.businessId }

\* Every order of the ids, the store's order left as it is
OrderByStartAt_Unordered(appts, ids) ==
    { seq \in [1..Cardinality(ids) -> ids] :
        \A i, j \in 1..Cardinality(ids) : i < j => seq[i] # seq[j] }

\* orderBy startAt asc: the orders of the ids the store may answer with; rows
\* with one startAt come in either order
OrderByStartAt(appts, ids) ==
    { seq \in [1..Cardinality(ids) -> ids] :
        \A i, j \in 1..Cardinality(ids) :
            i < j => seq[i] # seq[j] /\ appts[seq[i]].startAt <= appts[seq[j]].startAt }

\* take
Take(seq, limit) == SubSeq(seq, 1, IF limit < Len(seq) THEN limit ELSE Len(seq))

\* params.limit ?? 50
TakeOf(params) == IF params.limit = NoLimit THEN DefaultTake ELSE params.limit[1]

\* listAppointments: what it throws, or the answers findMany may give, each the
\* ids of the rows in the order returned
listAppointments(appts, params) ==
    IF params.ownerId # "" /\ params.businessId = ""
    THEN [status |-> Forbidden, results |-> {}]
    ELSE IF params.businessId # "" /\ params.ownerId # ""
            /\ assertBusinessAccess(params.businessId, params.ownerId) # Ok
    THEN [status |-> assertBusinessAccess(params.businessId, params.ownerId),
          results |-> {}]
    ELSE IF params.businessId # "" /\ params.ownerId = ""
            /\ assertBusinessExists(params.businessId) # Ok
    THEN [status |-> NotFound, results |-> {}]
    ELSE [status |-> Ok,
          results |-> { Take(seq, TakeOf(params)) :
                        seq \in OrderByStartAt(appts, listAppointmentsWhere(appts, params)) }]

\* AppointmentsController.list with the client's own id put after the query's
\* customerId instead of over it
list_KeepsCustomerId(appts, user, query) ==
    IF user.kind = "client"
    THEN listAppointments(appts, [businessId |-> query.businessId,
                                  customerId |-> IF query.customerId # ""
                                                 THEN query.customerId ELSE user.id,
                                  ownerId |-> "", limit |-> query.limit])
    ELSE IF query.businessId = ""
    THEN [status |-> Forbidden, results |-> {}]
    ELSE listAppointments(appts, [businessId |-> query.businessId,
                                  customerId |-> query.customerId,
                                  ownerId |-> user.id, limit |-> query.limit])

\* AppointmentsController.list for the authenticated user and the parsed query
list(appts, user, query) ==
    IF user.kind = "client"
    THEN listAppointments(appts, [businessId |-> query.businessId,
                                  customerId |-> user.id,
                                  ownerId |-> "", limit |-> query.limit])
    ELSE IF query.businessId = ""
    THEN [status |-> Forbidden, results |-> {}]
    ELSE listAppointments(appts, [businessId |-> query.businessId,
                                  customerId |-> query.customerId,
                                  ownerId |-> user.id, limit |-> query.limit])

----------------------------------------------------------------------------
(* Inputs of the calls *)

T(a, b, c, d) == <<a, b, ":", c, d>>

Sunday == ISODate(3)        \* 1970-01-04
Monday == ISODate(4)        \* 1970-01-05

MondayHours ==
    [dayOfWeek |-> 1, startTime |-> T("0","0","0","0"), endTime |-> T("0","2","0","0")]

RuleInputs ==
    { [dayOfWeek |-> 0, startTime |-> T("2","3","0","0"), endTime |-> T("2","5","0","0")],
      MondayHours,
      [dayOfWeek |-> 7, startTime |-> T("0","0","0","0"), endTime |-> T("0","2","0","0")],
      [dayOfWeek |-> 1, startTime |-> T("0","2","0","0"), endTime |-> T("0","0","0","0")],
      [dayOfWeek |-> 1, startTime |-> T("x","x","0","0"), endTime |-> T("0","2","0","0")] }

\* Calls of addAvailabilityRule: the owner of B1 with every input, and one call
\* each by another business user, for an unknown business and for B2 by its owner
RuleCalls ==
    [businessId : {"B1"}, input : RuleInputs, actorId : {"O1"}]
    \cup
    { [businessId |-> "B1", input |-> MondayHours, actorId |-> "O2"],
      [businessId |-> "B9", input |-> MondayHours, actorId |-> "O1"],
      [businessId |-> "B2", input |-> MondayHours, actorId |-> "O2"] }

MondayClosed ==
    [date |-> Monday, isClosed |-> "true", startTime |-> NoString, endTime |-> NoString]

\* isClosed is "true", "false" or "undefined" (omitted)
ExceptionInputs ==
    { MondayClosed,
      [date |-> Monday, isClosed |-> "false",
       startTime |-> T("0","0","0","0"), endTime |-> T("0","1","0","0")],
      [date |-> Monday, isClosed |-> "undefined",
       startTime |-> T("0","0","0","0"), endTime |-> T("0","1","0","0")],
      [date |-> InvalidISO, isClosed |-> "true", startTime |-> NoString, endTime |-> NoString],
      [date |-> Monday, isClosed |-> "false", startTime |-> NoString, endTime |-> NoString],
      [date |-> Monday, isClosed |-> "false",
       startTime |-> T("0","1","0","0"), endTime |-> T("0","0","0","0")] }

ExceptionCalls ==
    [businessId : {"B1"}, input : ExceptionInputs, actorId : {"O1"}]
    \cup
    { [businessId |-> "B1", input |-> MondayClosed, actorId |-> "O2"],
      [businessId |-> "B9", input |-> MondayClosed, actorId |-> "O1"] }

StaffIds == {NoStaff, "O1", "O2", "O9"}

StartInputs ==
    { ISOLocal(3, 23 * 60 + 30), ISOLocal(4, 0), ISOLocal(4, 60) }

\* Calls of createAppointment: client C1 with service S1 of B1 at every start and
\* with every staffId; single calls with the inactive service S2, with a service
\* of another business, with unknown ids, with an unparseable start and by an
\* unknown client, and for a start half an hour before Monday's closing;
\* client C2 with service S3 of B2
CreateInputs ==
    [businessId : {"B1"}, serviceId : {"S1"}, startAt : StartInputs, staffId : StaffIds,
     customerId : {"C1"}]
    \cup
    [businessId : {"B1"}, serviceId : {"S2", "S3", "S9"}, startAt : {ISOLocal(4, 0)},
     staffId : {NoStaff}, customerId : {"C1"}]
    \cup
    { [businessId |-> "B9", serviceId |-> "S1", startAt |-> ISOLocal(4, 0),
       staffId |-> NoStaff, customerId |-> "C1"],
      [businessId |-> "B1", serviceId |-> "S1", startAt |-> InvalidISO,
       staffId |-> NoStaff, customerId |-> "C1"],
      [businessId |-> "B1", serviceId |-> "S1", startAt |-> ISOLocal(4, 0),
       staffId |-> NoStaff, customerId |-> "C9"],
      [businessId |-> "B1", serviceId |-> "S1", startAt |-> ISOLocal(4, 90),
       staffId |-> NoStaff, customerId |-> "C1"],
      [businessId |-> "B2", serviceId |-> "S3", startAt |-> ISOLocal(4, 0),
       staffId |-> NoStaff, customerId |-> "C2"] }

Actors ==
    [id : userClient, kind : {"client"}] \cup [id : userBusiness, kind : {"business"}]

\* Calls of getAvailability: service S1 of B1 on both days with every staffId,
\* and with a step of an hour; single calls for the other services and
\* businesses and with an unparseable date
AvailabilityRequests ==
    [businessId : {"B1"}, date : {Sunday, Monday}, serviceId : {"S1"},
     stepMinutes : {0}, staffId : StaffIds]
    \cup
    [businessId : {"B1"}, date : {Sunday, Monday}, serviceId : {"S1"},
     stepMinutes : {60}, staffId : {NoStaff}]
    \cup
    [businessId : {"B1"}, date : {Monday}, serviceId : {"S2", "S3", "S9"},
     stepMinutes : {0}, staffId : {NoStaff}]
    \cup
    { [businessId |-> "B2", date |-> Monday, serviceId |-> "S3",
       stepMinutes |-> 0, staffId |-> NoStaff],
      [businessId |-> "B9", date |-> Monday, serviceId |-> "S1",
       stepMinutes |-> 0, staffId |-> NoStaff],
      [businessId |-> "B1", date |-> InvalidISO, serviceId |-> "S1",
       stepMinutes |-> 0, staffId |-> NoStaff] }

\* Calls of listAppointments as AppointmentsController.list makes them: a client
\* lists their own appointments, everywhere or in one business, with and
\* without limit; an owner lists those of a business, their own or not, or of
\* a customer in it; and one call with ownerId and no businessId
ListRequests ==
    [businessId : {"", "B1"}, customerId : {"C1"}, ownerId : {""}, limit : {NoLimit, <<1>>}]
    \cup
    [businessId : {"B1"}, customerId : {"", "C1"}, ownerId : {"O1"}, limit : {NoLimit}]
    \cup
    { [businessId |-> "B1", customerId |-> "", ownerId |-> "O1", limit |-> <<1>>],
      [businessId |-> "B1", customerId |-> "", ownerId |-> "O2", limit |-> NoLimit],
      [businessId |-> "B9", customerId |-> "C1", ownerId |-> "", limit |-> NoLimit],
      [businessId |-> "B2", customerId |-> "C2", ownerId |-> "", limit |-> NoLimit],
      [businessId |-> "", customerId |-> "", ownerId |-> "O1", limit |-> NoLimit] }

\* Queries of GET /appointments: every businessId and customerId, each also absent
ListQueries ==
    [businessId : {"", "B1", "B2"}, customerId : {"", "C1", "C2"}, limit : {NoLimit}]

ClockInstants == {5000, 5221}   \* 1970-01-04T11:20Z; a minute past Monday 00:00 in Tokyo

----------------------------------------------------------------------------
(* The calls.  A call that throws leaves every variable as it was. *)

Init ==
    /\ rules = <<>>
    /\ exceptions = <<>>
    /\ appointments = <<>>
    /\ now = 5000
    /\ inflight = <<>>

\* addAvailabilityRule: what it throws, or the row it creates
addAvailabilityRuleResult(businessId, input, actorId) ==
    LET access == assertBusinessAccess(businessId, actorId)
    IN  IF access # Ok
        THEN [status |-> access, msg |-> "assertBusinessAccess"]
        ELSE IF input.dayOfWeek < 0 \/ input.dayOfWeek > 6
        THEN [status |-> BadRequest, msg |-> "dayOfWeek debe estar entre 0 y 6"]
        ELSE IF ~assertValidTimeRange(input.startTime, input.endTime)
        THEN [status |-> BadRequest, msg |-> "Rango de horario invalido"]
        ELSE [status |-> Ok, msg |-> "",
              row |-> [businessId |-> businessId, dayOfWeek |-> input.dayOfWeek,
                       startTime |-> input.startTime, endTime |-> input.endTime]]

AddAvailabilityRule(businessId, input, actorId) ==
    \E r \in {addAvailabilityRuleResult(businessId, input, actorId)} :
        IF r.status # Ok
        THEN UNCHANGED vars
        ELSE /\ Len(rules) < MaxRules
             /\ rules' = Append(rules, r.row)
             /\ UNCHANGED <<exceptions, appointments, now, inflight>>

\* addAvailabilityException: what it throws, or the row it creates
addAvailabilityExceptionResult(businessId, input, actorId) ==
    LET access == assertBusinessAccess(businessId, actorId)
    IN  IF access # Ok
        THEN [status |-> access, msg |-> "assertBusinessAccess"]
        ELSE IF ~input.date.valid
        THEN [status |-> BadRequest, msg |-> "Fecha invalida"]
        ELSE IF input.isClosed # "true" /\ (input.startTime = NoString \/ input.endTime = NoString)
        THEN [status |-> BadRequest,
              msg |-> "startTime y endTime son requeridos cuando isClosed es false"]
        ELSE IF input.isClosed # "true" /\ ~assertValidTimeRange(input.startTime, input.endTime)
        THEN [status |-> BadRequest, msg |-> "Rango de horario invalido"]
        ELSE LET timezone == business[businessId].timezone
             IN  [status |-> Ok, msg |-> "",
                  row |-> [businessId |-> businessId,
                           date |-> startOfDay(fromISO(input.date, timezone), timezone),
                           isClosed |-> IF input.isClosed = "undefined" THEN TRUE
                                        ELSE input.isClosed = "true",
                           startTime |-> input.startTime,
                           endTime |-> input.endTime]]

\* The store returns rows in no promised order: the new row may come to lie
\* anywhere among the old ones.
AddAvailabilityExceptionUpTo(limit, businessId, input, actorId) ==
    \E r \in {addAvailabilityExceptionResult(businessId, input, actorId)} :
        IF r.status # Ok
        THEN UNCHANGED vars
        ELSE /\ Len(exceptions) < limit
             /\ \E k \in 0..Len(exceptions) :
                    exceptions' = SubSeq(exceptions, 1, k) \o <<r.row>>
                                    \o SubSeq(exceptions, k + 1, Len(exceptions))
             /\ UNCHANGED <<rules, appointments, now, inflight>>

AddAvailabilityException(businessId, input, actorId) ==
    AddAvailabilityExceptionUpTo(MaxExceptions, businessId, input, actorId)

\* A query: it answers getAvailability(params) and writes nothing.
GetAvailability(params) ==
    /\ getAvailability(params.businessId, params).status \in {Ok, NotFound, BadRequest}
    /\ UNCHANGED vars

CreateAppointment(input) ==
    \E r \in {createAppointmentRead(input, input.customerId)} :
        IF r.status # Ok
        THEN UNCHANGED vars
        ELSE /\ Len(appointments) < MaxAppointments
             /\ appointments' = Append(appointments, r.row)
             /\ UNCHANGED <<rules, exceptions, now, inflight>>

CancelAppointment(id, actor) ==
    /\ appointments' = cancelAppointmentRows(appointments, id, actor)
    /\ UNCHANGED <<rules, exceptions, now, inflight>>

\* A query: it answers listAppointments(params) and writes nothing.
ListAppointments(params) ==
    /\ listAppointments(appointments, params).status \in {Ok, NotFound, Forbidden}
    /\ UNCHANGED vars

\* CONFIRMED and COMPLETED are set by the business outside BookingService.
ExternalStatusChange(id) ==
    /\ id \in 1..Len(appointments)
    /\ appointments[id].status \in {"BOOKED", "CONFIRMED"}
    /\ appointments' = [appointments EXCEPT ![id].status =
                            IF @ = "BOOKED" THEN "CONFIRMED" ELSE "COMPLETED"]
    /\ UNCHANGED <<rules, exceptions, now, inflight>>

Tick ==
    /\ \E t \in ClockInstants : t > now /\ now' = t
    /\ UNCHANGED <<rules, exceptions, appointments, inflight>>

Next ==
    \/ \E call \in RuleCalls :
            AddAvailabilityRule(call.businessId, call.input, call.actorId)
    \/ \E call \in ExceptionCalls :
            AddAvailabilityException(call.businessId, call.input, call.actorId)
    \/ \E params \in AvailabilityRequests : GetAvailability(params)
    \/ \E input \in CreateInputs : CreateAppointment(input)
    \/ \E id \in 1..(MaxAppointments + 1), actor \in Actors : CancelAppointment(id, actor)
    \/ \E params \in ListRequests : ListAppointments(params)
    \/ \E id \in 1..MaxAppointments : ExternalStatusChange(id)
    \/ Tick

Spec == Init /\ [][Next]_vars

----------------------------------------------------------------------------
(* The store accesses of a call, in the order the call makes them; those of a
   Promise.all in the order written *)

addAvailabilityRuleAccesses(businessId, input, actorId) ==
    <<"business.findUnique">>
    \o (IF addAvailabilityRuleResult(businessId, input, actorId).status = Ok
        THEN <<"availabilityRule.create">> ELSE <<>>)

addAvailabilityExceptionAccesses(businessId, input, actorId) ==
    <<"business.findUnique">>
    \o (IF addAvailabilityExceptionResult(businessId, input, actorId).status = Ok
        THEN <<"availabilityException.create">> ELSE <<>>)

getDailyContextAccesses(businessId, date) ==
    <<"business.findUnique">>
    \o (IF getDailyContext(businessId, date).status = Ok
        THEN <<"availabilityRule.findMany", "availabilityException.findFirst",
               "appointment.findMany">>
        ELSE <<>>)

getAvailabilityAccesses(businessId, params) ==
    getDailyContextAccesses(businessId, params.date)
    \o (IF getDailyContext(businessId, params.date).status = Ok
        THEN <<"service.findUnique">> ELSE <<>>)

createAppointmentAccesses(input, customerId) ==
    <<"business.findUnique", "service.findUnique", "userClient.findUnique">>
    \o (IF /\ input.businessId \in DOMAIN business
           /\ input.serviceId \in DOMAIN service
           /\ service[input.serviceId].businessId = input.businessId
           /\ customerId \in userClient
        THEN (IF input.staffId # NoStaff THEN <<"userBusiness.findUnique">> ELSE <<>>)
             \o (IF (input.staffId = NoStaff \/ input.staffId \in userBusiness)
                     /\ input.startAt.valid
                  THEN getDailyContextAccesses(
                           input.businessId,
                           toISODate(fromISO(input.startAt,
                                             business[input.businessId].timezone),
                                     business[input.businessId].timezone))
                  ELSE <<>>)
        ELSE <<>>)
    \o (IF createAppointmentRead(input, customerId).status = Ok
        THEN <<"appointment.create">> ELSE <<>>)

----------------------------------------------------------------------------
(* createAppointment with its read and its write as separate steps *)

\* B1 is open on Mondays from 00:00 to 02:00
InitConcurrent ==
    /\ rules = <<addAvailabilityRuleResult("B1", MondayHours, "O1").row>>
    /\ exceptions = <<>>
    /\ appointments = <<>>
    /\ now = 5000
    /\ inflight = <<>>

\* Lines 381-414: the lookups, getDailyContext and the two checks; a call that
\* passed them waits for its write
BeginCreateAppointment(input) ==
    \E r \in {createAppointmentRead(input, input.customerId)} :
        IF r.status # Ok
        THEN UNCHANGED vars
        ELSE /\ Len(inflight) < MaxInflight
             /\ inflight' = Append(inflight, r.row)
             /\ UNCHANGED <<rules, exceptions, appointments, now>>

\* Lines 416-429: prisma.appointment.create
CommitCreateAppointment(k) ==
    /\ k \in 1..Len(inflight)
    /\ Len(appointments) < MaxAppointments
    /\ appointments' = Append(appointments, inflight[k])
    /\ inflight' = SubSeq(inflight, 1, k - 1) \o SubSeq(inflight, k + 1, Len(inflight))
    /\ UNCHANGED <<rules, exceptions, now>>

NextConcurrent ==
    \/ \E input \in CreateInputs : BeginCreateAppointment(input)
    \/ \E k \in 1..MaxInflight : CommitCreateAppointment(k)
    \/ \E id \in 1..(MaxAppointments + 1), actor \in Actors : CancelAppointment(id, actor)
    \/ \E id \in 1..MaxAppointments : ExternalStatusChange(id)

SpecConcurrent == InitConcurrent /\ [][NextConcurrent]_vars

----------------------------------------------------------------------------
(* The conflict test of createAppointment on one stored appointment and one
   candidate, at every relative position and with every pair of staffIds *)

OverlapStarts == {5220, 5250, 5280}

OverlapLengths == {30, 60}

OverlapStaffIds == {NoStaff, "O1", "O2"}

OverlapRows ==
    { [businessId |-> "B1", serviceId |-> "S1", customerId |-> "C1", staffId |-> staffId,
       startAt |-> start, endAt |-> start + length, status |-> "BOOKED"] :
      start \in OverlapStarts, length \in OverlapLengths, staffId \in OverlapStaffIds }

InitOverlaps ==
    /\ rules = <<>>
    /\ exceptions = <<>>
    /\ now = 5000
    /\ \E existing \in OverlapRows : appointments = <<existing>>
    /\ \E candidate \in OverlapRows : inflight = <<candidate>>

\* Lines 411-429: the conflict test on the candidate, then the throw or the create
CheckConflict ==
    /\ Len(inflight) > 0
    /\ inflight' = Tail(inflight)
    /\ IF \E i \in 1..Len(appointments) :
              overlaps(Head(inflight).startAt, Head(inflight).endAt,
                       appointments[i].startAt, appointments[i].endAt,
                       Head(inflight).staffId, appointments[i].staffId)
       THEN UNCHANGED appointments
       ELSE appointments' = Append(appointments, Head(inflight))
    /\ UNCHANGED <<rules, exceptions, now>>

NextOverlaps == CheckConflict

SpecOverlaps == InitOverlaps /\ [][NextOverlaps]_vars

----------------------------------------------------------------------------
(* The resolution of a day's open intervals, with several exceptions on a date *)

NextResolver ==
    \/ \E call \in RuleCalls :
            AddAvailabilityRule(call.businessId, call.input, call.actorId)
    \/ \E call \in ExceptionCalls :
            AddAvailabilityExceptionUpTo(MaxDayExceptions, call.businessId, call.input,
                                         call.actorId)
    \/ \E params \in AvailabilityRequests : GetAvailability(params)

SpecResolver == Init /\ [][NextResolver]_vars

----------------------------------------------------------------------------
(* Several rules on one weekday, with hours written in one and in two digits *)

\* Calls of addAvailabilityRule by the owners: Monday hours of B1 that follow
\* one another, overlap, or are written without a leading zero; Sunday hours
\* up to 25:00; Monday hours of B2
ClockRuleCalls ==
    [businessId : {"B1"}, actorId : {"O1"},
     input : { [dayOfWeek |-> 1, startTime |-> <<"9", ":", "0", "0">>,
                endTime |-> T("1","0","0","0")],
               [dayOfWeek |-> 1, startTime |-> T("1","0","0","0"),
                endTime |-> T("1","1","0","0")],
               [dayOfWeek |-> 1, startTime |-> T("0","9","0","0"),
                endTime |-> T("1","0","0","0")],
               [dayOfWeek |-> 1, startTime |-> T("0","1","0","0"),
                endTime |-> T("0","3","0","0")],
               MondayHours,
               [dayOfWeek |-> 0, startTime |-> T("2","3","0","0"),
                endTime |-> T("2","5","0","0")] }]
    \cup
    { [businessId |-> "B2", actorId |-> "O2", input |-> MondayHours] }

NextRules ==
    \/ \E call \in ClockRuleCalls :
            AddAvailabilityRule(call.businessId, call.input, call.actorId)
    \/ \E params \in AvailabilityRequests : GetAvailability(params)
    \/ Tick

SpecRules == Init /\ [][NextRules]_vars

----------------------------------------------------------------------------
(* Properties *)

Live(a) == a.status # "CANCELLED"

TimesOverlap(a, b) == a.startAt < b.endAt /\ b.startAt < a.endAt

Authorized(a, actor) ==
    \/ actor.kind = "client" /\ actor.id = a.customerId
    \/ actor.kind = "business" /\ actor.id = business[a.businessId].ownerId

\* C1: no two appointments of one business that are not CANCELLED overlap as
\* half-open intervals when they have the same staffId or one of them has none.
C1_NoDoubleBooking ==
    \A i, j \in 1..Len(appointments) :
        (/\ i < j
         /\ appointments[i].businessId = appointments[j].businessId
         /\ Live(appointments[i]) /\ Live(appointments[j])
         /\ \/ appointments[i].staffId = appointments[j].staffId
            \/ appointments[i].staffId = NoStaff
            \/ appointments[j].staffId = NoStaff)
        => ~TimesOverlap(appointments[i], appointments[j])

\* C2: of createAppointment calls for overlapping slots of one business with the
\* same staffId whose reads and writes interleave, no two commit: the store never
\* holds two such rows that are both not CANCELLED.
C2_OneRequestCommits ==
    \A i, j \in 1..Len(appointments) :
        (/\ i < j
         /\ appointments[i].businessId = appointments[j].businessId
         /\ appointments[i].staffId = appointments[j].staffId
         /\ TimesOverlap(appointments[i], appointments[j]))
        => (~Live(appointments[i]) \/ ~Live(appointments[j]))

\* C3: CANCELLED and COMPLETED are terminal: no step changes the status of an
\* appointment that is CANCELLED or COMPLETED.
C3_TerminalStatus ==
    [][\A id \in 1..Len(appointments) :
          appointments[id].status \in {"CANCELLED", "COMPLETED"}
          => appointments'[id].status = appointments[id].status]_vars

\* C4: a createAppointment rejected because its interval overlaps an existing
\* appointment is rejected as a conflict, not as a bad request.
C4_SlotTakenIsConflict ==
    \A input \in CreateInputs :
        LET r == createAppointmentRead(input, input.customerId)
        IN  r.msg = "Existe otra cita en ese horario" => r.status = Conflict

\* C5: cancelAppointment sets CANCELLED only for the client who booked or the
\* owner of the appointment's business; any other actor on an appointment that is
\* not CANCELLED is rejected as forbidden (an unknown id as not found) and the
\* rows stay as they are.
C5_CancelAuthorization ==
    \A id \in 1..(MaxAppointments + 1), actor \in Actors :
        LET r == cancelAppointmentResult(appointments, id, actor)
            after == cancelAppointmentRows(appointments, id, actor)
        IN  IF id \notin 1..Len(appointments)
            THEN r.status = NotFound /\ after = appointments
            ELSE /\ after # appointments => Authorized(appointments[id], actor)
                 /\ (Live(appointments[id]) /\ ~Authorized(appointments[id], actor))
                        => (r.status = Forbidden /\ after = appointments)
                 /\ (Live(appointments[id]) /\ Authorized(appointments[id], actor))
                        => (r.status = Ok /\ after[id].status = "CANCELLED")

C5_Witness ==
    \E i, j \in 1..Len(appointments) :
        ~Live(appointments[i]) /\ Live(appointments[j])

\* C6: cancelAppointment on a CANCELLED appointment succeeds for every actor and
\* leaves the rows unchanged, so a second cancel after a successful one returns
\* success and yields the rows of the first.
C6_CancelIdempotent ==
    \A id \in 1..Len(appointments), actor \in Actors, again \in Actors :
        LET r == cancelAppointmentResult(appointments, id, actor)
            once == cancelAppointmentRows(appointments, id, actor)
        IN  /\ ~Live(appointments[id]) => (r.status = Ok /\ once = appointments)
            /\ r.status = Ok
                  => /\ cancelAppointmentResult(once, id, again).status = Ok
                     /\ cancelAppointmentRows(once, id, again) = once

C6_Witness ==
    \E id \in 1..Len(appointments) :
        /\ ~Live(appointments[id])
        /\ \E actor \in Actors : ~Authorized(appointments[id], actor)

\* C7: a service with isActive = false gets no slots from getAvailability and no
\* appointment from createAppointment.
C7_InactiveServiceExcluded ==
    /\ \A id \in 1..Len(appointments) : service[appointments[id].serviceId].isActive
    /\ \A params \in AvailabilityRequests :
          (params.serviceId \in DOMAIN service /\ ~service[params.serviceId].isActive)
          => getAvailability(params.businessId, params).slots = <<>>

\* The start instants of the slots getAvailability returns for the day of the
\* instant at, as createAppointment would read them
OfferedStarts(businessId, serviceId, at, stepMinutes, staffId) ==
    LET timezone == business[businessId].timezone
        r == getAvailability(businessId,
                 [date |-> toISODate(at, timezone), serviceId |-> serviceId,
                  stepMinutes |-> stepMinutes, staffId |-> staffId])
    IN  { fromISO(r.slots[k].startAt, timezone) : k \in 1..Len(r.slots) }

Steps == {0, 60}

\* getAvailability for the appointment's business, service and day returns a
\* slot starting at the appointment's start
Reoffered(id, stepMinutes, staffId) ==
    appointments[id].startAt \in
        OfferedStarts(appointments[id].businessId, appointments[id].serviceId,
                      appointments[id].startAt, stepMinutes, staffId)

SameStaffScope(staffId, a) ==
    staffId = NoStaff \/ a.staffId = NoStaff \/ staffId = a.staffId

\* C8 as claimed: while an appointment created by createAppointment is not
\* CANCELLED, and so right after its creation, no getAvailability for the same
\* business, service and day returns a slot starting at its start, whatever
\* staffId the query names.
C8_BookedSlotNotReoffered_AnyStaff ==
    \A id \in 1..Len(appointments), stepMinutes \in Steps, staffId \in StaffIds :
        Live(appointments[id]) => ~Reoffered(id, stepMinutes, staffId)

\* C8: while an appointment created by createAppointment is not CANCELLED, and so
\* right after its creation, no getAvailability for the same business, service
\* and day returns a slot starting at its start when the query names no staffId,
\* the appointment has none, or both name the same one.
C8_BookedSlotNotReoffered ==
    \A id \in 1..Len(appointments), stepMinutes \in Steps, staffId \in StaffIds :
        (Live(appointments[id]) /\ SameStaffScope(staffId, appointments[id]))
        => ~Reoffered(id, stepMinutes, staffId)

\* A booked appointment on a day for which the same query still offers slots
C8_Witness ==
    \E id \in 1..Len(appointments), stepMinutes \in Steps :
        /\ appointments[id].status = "BOOKED"
        /\ OfferedStarts(appointments[id].businessId, appointments[id].serviceId,
                         appointments[id].startAt, stepMinutes, appointments[id].staffId)
             # {}

\* The appointment's start is a grid point of an interval open on its day, with
\* room for the appointment up to the interval's end
OnGrid(a, stepMinutes) ==
    LET timezone == business[a.businessId].timezone
        context == getDailyContext(a.businessId, toISODate(a.startAt, timezone))
    IN  \E k \in 1..Len(context.intervals) :
            /\ a.startAt >= context.intervals[k].start
            /\ (a.startAt - context.intervals[k].start) % EffectiveStep(stepMinutes) = 0
            /\ a.endAt <= context.intervals[k].end

NoOtherConflict(id) ==
    \A j \in 1..Len(appointments) :
        (/\ j # id
         /\ Live(appointments[j])
         /\ appointments[j].businessId = appointments[id].businessId
         /\ SameStaffScope(appointments[id].staffId, appointments[j]))
        => ~TimesOverlap(appointments[id], appointments[j])

Rebookable(id, stepMinutes) ==
    /\ OnGrid(appointments[id], stepMinutes)
    /\ appointments[id].startAt > now - 1
    /\ NoOtherConflict(id)

\* C9: once cancelAppointment has set an appointment to CANCELLED, getAvailability
\* for its business, service, day and staffId offers the slot at its start again,
\* and createAppointment for that slot succeeds, whenever the start is a grid
\* point of an open interval with room for the appointment, is not in the past
\* and no other appointment that is not CANCELLED conflicts with it.
C9_CancelledSlotReoffered ==
    \A id \in 1..Len(appointments), stepMinutes \in Steps :
        (~Live(appointments[id]) /\ Rebookable(id, stepMinutes))
        => /\ Reoffered(id, stepMinutes, appointments[id].staffId)
           /\ createAppointmentRead(
                  [businessId |-> appointments[id].businessId,
                   serviceId |-> appointments[id].serviceId,
                   startAt |-> toISO(appointments[id].startAt,
                                     business[appointments[id].businessId].timezone),
                   staffId |-> appointments[id].staffId],
                  appointments[id].customerId).status = Ok

C9_Witness ==
    \E id \in 1..Len(appointments), stepMinutes \in Steps :
        /\ ~Live(appointments[id])
        /\ Rebookable(id, stepMinutes)
        /\ \E j \in 1..Len(appointments) : Live(appointments[j])

\* C10: every slot getAvailability returns is accepted by createAppointment for
\* the same business, service and staffId and an existing client.
C10_OfferedSlotIsBookable ==
    \A params \in AvailabilityRequests :
        LET r == getAvailability(params.businessId, params)
        IN  \A k \in 1..Len(r.slots) :
                createAppointmentRead(
                    [businessId |-> params.businessId, serviceId |-> params.serviceId,
                     startAt |-> r.slots[k].startAt, staffId |-> params.staffId],
                    "C1").status = Ok

----------------------------------------------------------------------------
(* Containment in the day's open intervals *)

\* The open intervals resolved now for the calendar date of the instant at, in
\* the business timezone
OpenIntervalsAt(businessId, at) ==
    getDailyContext(businessId, toISODate(at, business[businessId].timezone)).intervals

\* [start, end) lies inside one of the open intervals of start's date
InsideOpenInterval(businessId, start, end) ==
    LET intervals == OpenIntervalsAt(businessId, start)
    IN  \E k \in 1..Len(intervals) :
            intervals[k].start <= start /\ end <= intervals[k].end

\* [start, end) begins inside one of the open intervals of start's date and
\* ends after it
StraddlesOpenInterval(businessId, start, end) ==
    LET intervals == OpenIntervalsAt(businessId, start)
    IN  \E k \in 1..Len(intervals) :
            intervals[k].start <= start /\ start < intervals[k].end /\ intervals[k].end < end

\* The request names a business, a service and a start whose interval of the
\* service's duration lies inside an open interval of the start's date
InputFits(input) ==
    /\ input.businessId \in DOMAIN business
    /\ input.serviceId \in DOMAIN service
    /\ input.startAt.valid
    /\ InsideOpenInterval(input.businessId,
                          fromISO(input.startAt, business[input.businessId].timezone),
                          fromISO(input.startAt, business[input.businessId].timezone)
                              + service[input.serviceId].durationMin)

\* The row is the one the request asks for
RowOfInput(row, input) ==
    /\ row.businessId = input.businessId
    /\ row.serviceId = input.serviceId
    /\ row.customerId = input.customerId
    /\ row.staffId = input.staffId
    /\ row.startAt = fromISO(input.startAt, business[input.businessId].timezone)
    /\ row.endAt = row.startAt + service[input.serviceId].durationMin

\* C11: createAppointment commits an appointment only for a request whose
\* interval [startAt, startAt + durationMin) lies inside an open interval resolved
\* for startAt's date when it is called; every other request is rejected, and a
\* step that adds a row adds the row of a request that fits.
C11_CommitsOnlyInsideOpenInterval ==
    /\ [](\A input \in CreateInputs :
             createAppointmentRead(input, input.customerId).status = Ok => InputFits(input))
    /\ [][Len(appointments') > Len(appointments)
            => /\ Len(appointments') = Len(appointments) + 1
               /\ SubSeq(appointments', 1, Len(appointments)) = appointments
               /\ \E input \in CreateInputs :
                      /\ InputFits(input)
                      /\ RowOfInput(appointments'[Len(appointments')], input)]_vars

\* An appointment is stored while a request that begins inside an open interval
\* and ends after it is being rejected
C11_Witness ==
    /\ Len(appointments) > 0
    /\ \E input \in CreateInputs :
          /\ input.businessId \in DOMAIN business
          /\ input.serviceId \in DOMAIN service
          /\ input.startAt.valid
          /\ StraddlesOpenInterval(input.businessId,
                  fromISO(input.startAt, business[input.businessId].timezone),
                  fromISO(input.startAt, business[input.businessId].timezone)
                      + service[input.serviceId].durationMin)
          /\ createAppointmentRead(input, input.customerId).msg
               = "Horario fuera de la disponibilidad del negocio"

----------------------------------------------------------------------------
(* Exceptions *)

Dates == {Sunday, Monday}

\* The start of the date in the business timezone
DayOf(businessId, date) ==
    startOfDay(fromISO(date, business[businessId].timezone), business[businessId].timezone)

\* The request asks for a start on the date
StartsOn(input, businessId, date) ==
    /\ input.businessId = businessId
    /\ input.startAt.valid
    /\ toISODate(fromISO(input.startAt, business[businessId].timezone),
                 business[businessId].timezone) = date

\* C12: when the exception consulted for a business and date is closed, the
\* date resolves to no open interval however many rules its weekday has,
\* getAvailability returns no slot for it and createAppointment rejects every
\* start on it.
C12_ClosedExceptionNoIntervals ==
    \A businessId \in DOMAIN business, date \in Dates :
        LET found == findDayExceptions(businessId, DayOf(businessId, date))
        IN  (Len(found) > 0 /\ Head(found).isClosed)
            => /\ getDailyContext(businessId, date).intervals = <<>>
               /\ \A params \in AvailabilityRequests :
                      (params.businessId = businessId /\ params.date = date)
                      => getAvailability(businessId, params).slots = <<>>
               /\ \A input \in CreateInputs :
                      StartsOn(input, businessId, date)
                      => createAppointmentRead(input, input.customerId).status # Ok

\* A closed exception is consulted for a Monday that has two rules
C12_Witness ==
    /\ Len(findDayExceptions("B1", DayOf("B1", Monday))) > 0
    /\ Head(findDayExceptions("B1", DayOf("B1", Monday))).isClosed
    /\ Len(findDayRules("B1", 1)) = 2

\* C13: when the exception consulted for a business and date is not closed, the
\* date resolves to exactly the override interval of its startTime and endTime,
\* or to none if that is no interval; the rules' intervals are not part of it.
C13_OverrideReplacesRules ==
    \A businessId \in DOMAIN business, date \in Dates :
        LET day == DayOf(businessId, date)
            found == findDayExceptions(businessId, day)
            override == intervalFromStrings(day, Head(found).startTime, Head(found).endTime)
        IN  (Len(found) > 0 /\ ~Head(found).isClosed)
            => getDailyContext(businessId, date).intervals
                 = IF override.ok THEN <<override>> ELSE <<>>

\* An exception that is not closed is consulted for a Monday whose rules give
\* other intervals than the override
C13_Witness ==
    /\ Len(findDayExceptions("B1", DayOf("B1", Monday))) > 0
    /\ ~Head(findDayExceptions("B1", DayOf("B1", Monday))).isClosed
    /\ Len(findDayRules("B1", 1)) > 0
    /\ MapIntervals(DayOf("B1", Monday), findDayRules("B1", 1))
         # getDailyContext("B1", Monday).intervals

\* C16: the open intervals of a business and date are a function of the stored
\* rules and exceptions: whichever of the exceptions stored for the date the
\* store finds first, the resolution gives the same sequence of intervals.
C16_ResolutionDeterministic ==
    \A businessId \in DOMAIN business, date \in Dates :
        LET day == DayOf(businessId, date)
            found == findDayExceptions(businessId, day)
            ruleIntervals == MapIntervals(day, findDayRules(businessId,
                                 dayOfWeekOf(day, business[businessId].timezone)))
        IN  \A i, j \in 1..Len(found) :
                ExceptionIntervals(day, found[i], ruleIntervals)
                  = ExceptionIntervals(day, found[j], ruleIntervals)

----------------------------------------------------------------------------
(* The slots of getAvailability *)

\* The slots getAvailability returns, as the instants their strings denote in
\* the business timezone
SlotInstants(params) ==
    LET r == getAvailability(params.businessId, params)
    IN  { [startAt |-> fromISO(r.slots[k].startAt, business[params.businessId].timezone),
           endAt |-> fromISO(r.slots[k].endAt, business[params.businessId].timezone)] :
          k \in 1..Len(r.slots) }

\* The request is answered with slots, not with an error
Answered(params) == getAvailability(params.businessId, params).status = Ok

\* The candidates of the request: from the start of each open interval of the
\* date in steps of the effective step, as long as the service fits in
GridCandidates(params) ==
    LET intervals == getDailyContext(params.businessId, params.date).intervals
        step == EffectiveStep(params.stepMinutes)
        duration == service[params.serviceId].durationMin
    IN  UNION { { [startAt |-> intervals[i].start + k * step,
                   endAt |-> intervals[i].start + k * step + duration] :
                  k \in { n \in 0..((intervals[i].end - intervals[i].start) \div step) :
                            intervals[i].start + n * step + duration
                              <= intervals[i].end } } :
                i \in 1..Len(intervals) }

\* An appointment of the business that is not CANCELLED and in the staff scope
\* of the request overlaps the candidate
Conflicting(candidate, params) ==
    \E id \in 1..Len(appointments) :
        /\ Live(appointments[id])
        /\ appointments[id].businessId = params.businessId
        /\ SameStaffScope(params.staffId, appointments[id])
        /\ TimesOverlap(candidate, appointments[id])

\* C14: no slot getAvailability returns overlaps, as half-open intervals, an
\* appointment of the business that is not CANCELLED and has no staffId, or the
\* requested one, or any when the request names none.
C14_SlotsAvoidAppointments ==
    \A params \in AvailabilityRequests :
        \A slot \in SlotInstants(params) : ~Conflicting(slot, params)

\* C15: getAvailability returns no slot that starts at or before a minute
\* before now, and returns every candidate of the grid that starts later and
\* overlaps no appointment in the staff scope of the request.
C15_PastSlotsSkipped ==
    \A params \in AvailabilityRequests :
        LET slots == SlotInstants(params)
        IN  /\ \A slot \in slots : slot.startAt > now - 1
            /\ Answered(params)
               => \A candidate \in GridCandidates(params) :
                      (candidate.startAt > now - 1 /\ ~Conflicting(candidate, params))
                      => candidate \in slots

\* A minute past Monday 00:00 the candidate at 00:00 is left out and later
\* ones of the same request are returned
C15_Witness ==
    \E params \in AvailabilityRequests :
        /\ Answered(params)
        /\ \E candidate \in GridCandidates(params) :
               candidate.startAt = now - 1 /\ ~Conflicting(candidate, params)
        /\ SlotInstants(params) # {}

\* C20: the slots getAvailability returns are exactly the candidates of the grid
\* of each open interval that are neither past nor in conflict with an
\* appointment in the staff scope of the request; each is as long as the
\* service, the step is the requested one or 15, and a service longer than
\* every interval gives an empty list, not an error.
C20_SlotsAreTheFreeGridCandidates ==
    \A params \in AvailabilityRequests :
        Answered(params)
        => /\ SlotInstants(params)
                = { candidate \in GridCandidates(params) :
                      candidate.startAt > now - 1 /\ ~Conflicting(candidate, params) }
           /\ \A slot \in SlotInstants(params) :
                  slot.endAt - slot.startAt = service[params.serviceId].durationMin
           /\ (\A i \in 1..Len(getDailyContext(params.businessId, params.date).intervals) :
                   LET interval == getDailyContext(params.businessId, params.date).intervals[i]
                   IN  interval.end - interval.start < service[params.serviceId].durationMin)
              => getAvailability(params.businessId, params).slots = <<>>

----------------------------------------------------------------------------
(* The conflict test *)

\* The reference predicate: the two are in one staff scope and their half-open
\* intervals share an instant
ReferenceOverlap(candidate, existing) ==
    /\ ~(candidate.staffId # NoStaff /\ existing.staffId # NoStaff
         /\ candidate.staffId # existing.staffId)
    /\ candidate.startAt < existing.endAt
    /\ candidate.endAt > existing.startAt

\* C19: overlaps is false when both staffIds are present and differ, and
\* otherwise is candidateStart < existingEnd and candidateEnd > existingStart,
\* so that intervals meeting at an endpoint do not conflict: the test on a
\* waiting candidate equals the reference predicate, and a candidate is stored
\* next to an appointment only when the reference predicate is false of them.
C19_OverlapsIsReference ==
    /\ \A k \in 1..Len(inflight), i \in 1..Len(appointments) :
           overlaps(inflight[k].startAt, inflight[k].endAt,
                    appointments[i].startAt, appointments[i].endAt,
                    inflight[k].staffId, appointments[i].staffId)
             = ReferenceOverlap(inflight[k], appointments[i])
    /\ \A i, j \in 1..Len(appointments) :
           i < j => ~ReferenceOverlap(appointments[j], appointments[i])

\* A candidate has been stored that starts where the stored appointment of the
\* same staff ends
C19_Witness ==
    /\ Len(appointments) = 2
    /\ inflight = <<>>
    /\ appointments[2].startAt = appointments[1].endAt
    /\ appointments[2].staffId = appointments[1].staffId
    /\ appointments[1].staffId # NoStaff

----------------------------------------------------------------------------
(* Listing *)

\* C17: whatever answer the store gives, listAppointments returns no CANCELLED
\* appointment, only appointments of the businessId and customerId asked for,
\* in ascending order of startAt, and at most limit of them, 50 when no limit
\* is given.
C17_ListIsFilteredAndOrdered ==
    \A params \in ListRequests :
        \A seq \in listAppointments(appointments, params).results :
            /\ \A k \in 1..Len(seq) :
                   /\ seq[k] \in 1..Len(appointments)
                   /\ appointments[seq[k]].status # "CANCELLED"
                   /\ params.businessId # ""
                      => appointments[seq[k]].businessId = params.businessId
                   /\ params.customerId # ""
                      => appointments[seq[k]].customerId = params.customerId
            /\ \A k \in 1..(Len(seq) - 1) :
                   appointments[seq[k]].startAt <= appointments[seq[k + 1]].startAt
            /\ Len(seq) <= (IF params.limit = NoLimit THEN 50 ELSE params.limit[1])

\* Two appointments stored against the order of their starts are listed by
\* start, and the first of them alone with a limit of one
C17_Witness ==
    /\ Len(appointments) = 2
    /\ appointments[1].startAt > appointments[2].startAt
    /\ listAppointments(appointments, [businessId |-> "B1", customerId |-> "C1",
                                       ownerId |-> "", limit |-> NoLimit]).results
         = {<<2, 1>>}
    /\ listAppointments(appointments, [businessId |-> "B1", customerId |-> "C1",
                                       ownerId |-> "", limit |-> <<1>>]).results
         = {<<2>>}

----------------------------------------------------------------------------
(* Validation *)

\* dayOfWeek out of range, or times that do not parse or are not in order
InvalidRuleInput(input) ==
    \/ input.dayOfWeek < 0 \/ input.dayOfWeek > 6
    \/ ~assertValidTimeRange(input.startTime, input.endTime)

\* A date that does not parse, or an override whose times are missing, do not
\* parse or are not in order
InvalidExceptionInput(input) ==
    \/ ~input.date.valid
    \/ /\ input.isClosed # "true"
       /\ \/ input.startTime = NoString
          \/ input.endTime = NoString
          \/ ~assertValidTimeRange(input.startTime, input.endTime)

\* C18: a call of addAvailabilityRule, addAvailabilityException, getAvailability
\* or createAppointment whose input fails validation (weekday out of range,
\* times that do not parse or are not in order, a date or start that does not
\* parse) is rejected before it makes any store access, read or write.
C18_ValidationBeforeStoreAccess ==
    /\ \A call \in RuleCalls :
           InvalidRuleInput(call.input)
           => addAvailabilityRuleAccesses(call.businessId, call.input, call.actorId) = <<>>
    /\ \A call \in ExceptionCalls :
           InvalidExceptionInput(call.input)
           => addAvailabilityExceptionAccesses(call.businessId, call.input, call.actorId)
                = <<>>
    /\ \A params \in AvailabilityRequests :
           ~params.date.valid => getAvailabilityAccesses(params.businessId, params) = <<>>
    /\ \A input \in CreateInputs :
           ~input.startAt.valid => createAppointmentAccesses(input, input.customerId) = <<>>

----------------------------------------------------------------------------
(* Order of the slots *)

\* The intervals of the rules of the date's weekday, in the order
\* getDailyContext builds them
RuleIntervals(businessId, date) ==
    MapIntervals(DayOf(businessId, date),
                 findDayRules(businessId,
                              dayOfWeekOf(DayOf(businessId, date),
                                          business[businessId].timezone)))

\* The start instants of the slots getAvailability returns, in their order
SlotStarts(params) ==
    LET r == getAvailability(params.businessId, params)
    IN  [k \in 1..Len(r.slots) |->
            fromISO(r.slots[k].startAt, business[params.businessId].timezone)]

\* The intervals of the rules are in ascending order of their start instants
RuleIntervalsSorted ==
    \A businessId \in DOMAIN business, date \in Dates :
        LET intervals == RuleIntervals(businessId, date)
        IN  \A i, j \in 1..Len(intervals) :
                i < j => intervals[i].start <= intervals[j].start

\* The slots of every answer are in ascending order of their start instants
SlotsChronological ==
    \A params \in AvailabilityRequests :
        LET starts == SlotStarts(params)
        IN  \A k \in 1..(Len(starts) - 1) : starts[k] <= starts[k + 1]

\* C21: for every set of rules addAvailabilityRule accepted, several on one
\* weekday included, the intervals of the rules are sorted ascending by start
\* instant, and the starts of consecutive slots getAvailability returns are
\* non-decreasing.
C21_SlotsChronological == RuleIntervalsSorted /\ SlotsChronological

----------------------------------------------------------------------------
(* Which appointments block *)

\* The interval a request of createAppointment asks for, when it names a
\* business, a service and a start
Parsed(input) ==
    /\ input.businessId \in DOMAIN business
    /\ input.serviceId \in DOMAIN service
    /\ input.startAt.valid

CandidateOf(input) ==
    [startAt |-> fromISO(input.startAt, business[input.businessId].timezone),
     endAt |-> fromISO(input.startAt, business[input.businessId].timezone)
                 + service[input.serviceId].durationMin]

\* The appointment is of the request's business and in its staff scope, and
\* overlaps the candidate
Blocks(a, candidate, request) ==
    /\ a.businessId = request.businessId
    /\ SameStaffScope(request.staffId, a)
    /\ TimesOverlap(candidate, a)

\* An appointment that is BOOKED, CONFIRMED or COMPLETED withholds every slot
\* and rejects every booking that overlaps it in its staff scope
LiveAppointmentsBlock ==
    \A id \in 1..Len(appointments) :
        appointments[id].status \in {"BOOKED", "CONFIRMED", "COMPLETED"}
        => /\ \A params \in AvailabilityRequests :
                  \A slot \in SlotInstants(params) :
                      ~Blocks(appointments[id], slot, params)
           /\ \A input \in CreateInputs :
                  (Parsed(input) /\ Blocks(appointments[id], CandidateOf(input), input))
                  => createAppointmentRead(input, input.customerId).status # Ok

\* A slot is withheld, and a booking rejected for a conflict, only where an
\* appointment that is not CANCELLED overlaps it
CancelledNeverBlock ==
    /\ \A params \in AvailabilityRequests :
           LET slots == SlotInstants(params)
           IN  Answered(params)
               => \A candidate \in GridCandidates(params) :
                      (candidate.startAt > now - 1 /\ candidate \notin slots)
                      => \E id \in 1..Len(appointments) :
                             /\ Live(appointments[id])
                             /\ Blocks(appointments[id], candidate, params)
    /\ \A input \in CreateInputs :
           createAppointmentRead(input, input.customerId).msg
             = "Existe otra cita en ese horario"
           => \E id \in 1..Len(appointments) :
                  /\ Live(appointments[id])
                  /\ Blocks(appointments[id], CandidateOf(input), input)

\* C22: an appointment blocks its time range in getAvailability and in
\* createAppointment exactly while it is BOOKED, CONFIRMED or COMPLETED: every
\* such appointment withholds the slots and rejects the bookings that overlap
\* it, and no CANCELLED appointment withholds a slot or rejects a booking.
C22_BlocksExactlyWhileNotCancelled == LiveAppointmentsBlock /\ CancelledNeverBlock

----------------------------------------------------------------------------
(* The date of an exception *)

\* The stored exception is among the rows the resolution of the date finds
Found(x, businessId, date) ==
    \E k \in 1..Len(findDayExceptions(businessId, DayOf(businessId, date))) :
        findDayExceptions(businessId, DayOf(businessId, date))[k] = x

\* The stored exception is the row the resolution of the date consults
Consulted(x, businessId, date) ==
    /\ Len(findDayExceptions(businessId, DayOf(businessId, date))) > 0
    /\ Head(findDayExceptions(businessId, DayOf(businessId, date))) = x

\* The row addAvailabilityException stores is dated with the start of the
\* calendar date asked for, in the business timezone
StoredOnDateAsked ==
    \A call \in ExceptionCalls :
        addAvailabilityExceptionResult(call.businessId, call.input, call.actorId).status = Ok
        => toISODate(addAvailabilityExceptionResult(call.businessId, call.input,
                                                    call.actorId).row.date,
                     business[call.businessId].timezone)
             = ISODate(call.input.date.day)

\* C23: an exception addAvailabilityException created for a date of a business
\* is the one consulted when the open intervals of that date and business are
\* resolved, and is not consulted for any other date or business.
C23_ExceptionPinnedToItsDate ==
    /\ StoredOnDateAsked
    /\ \A k \in 1..Len(exceptions), businessId \in DOMAIN business, date \in Dates :
           IF /\ businessId = exceptions[k].businessId
              /\ date = toISODate(exceptions[k].date, business[businessId].timezone)
           THEN Consulted(exceptions[k], businessId, date)
           ELSE ~Found(exceptions[k], businessId, date)

----------------------------------------------------------------------------
(* What an accepted exception resolves to *)

\* The intervals the date of the row resolves to when the row is the
\* exception consulted, with the rules stored now
ResolvedWith(row) ==
    ExceptionIntervals(row.date, row,
                       MapIntervals(row.date,
                                    findDayRules(row.businessId,
                                                 dayOfWeekOf(row.date,
                                                     business[row.businessId].timezone))))

\* C24: the record stored for an accepted exception resolves as the input was
\* validated: a request with isClosed true gives a closed day, and a request
\* with isClosed false or omitted, whose startTime and endTime were required
\* and validated, gives exactly the interval [startTime, endTime) of the date.
C24_ExceptionResolvesAsValidated ==
    \A call \in ExceptionCalls :
        addAvailabilityExceptionResult(call.businessId, call.input, call.actorId).status = Ok
        => LET row == addAvailabilityExceptionResult(call.businessId, call.input,
                                                     call.actorId).row
           IN  IF call.input.isClosed = "true"
               THEN ResolvedWith(row) = <<>>
               ELSE ResolvedWith(row)
                      = <<intervalFromStrings(row.date, call.input.startTime,
                                              call.input.endTime)>>

----------------------------------------------------------------------------
(* Bookings in the past *)

\* C25: createAppointment commits no appointment that starts at or before a
\* minute before now, the starts getAvailability withholds as past: no request
\* for such a start is accepted, and no step stores such an appointment.
C25_NoBookingInThePast ==
    /\ [](\A input \in CreateInputs :
             createAppointmentRead(input, input.customerId).status = Ok
             => CandidateOf(input).startAt > now - 1)
    /\ [][Len(appointments') > Len(appointments)
            => appointments'[Len(appointments')].startAt > now - 1]_vars

----------------------------------------------------------------------------
(* Appointments and the open intervals of their day, later *)

\* C26: in every reachable state every appointment that is not CANCELLED lies
\* inside an open interval resolved now for the date of its start; so after
\* addAvailabilityException closes or narrows a day, no such appointment is
\* left outside the open intervals of the day.
C26_AppointmentsInsideOpenIntervals ==
    \A id \in 1..Len(appointments) :
        Live(appointments[id])
        => InsideOpenInterval(appointments[id].businessId, appointments[id].startAt,
                              appointments[id].endAt)

----------------------------------------------------------------------------
(* Intervals and their calendar day *)

\* The text is an hour in 0..23 and a minute in 0..59
ClockTime(text) ==
    /\ Len(SplitColon(text)) = 2
    /\ ~Number(SplitColon(text)[1]).isNaN
    /\ ~Number(SplitColon(text)[2]).isNaN
    /\ Number(SplitColon(text)[1]).value \in 0..23
    /\ Number(SplitColon(text)[2]).value \in 0..59

\* The stored rules and the overrides of the stored exceptions spell clock
\* times, and their intervals lie within the day they are built on
IntervalsWithinTheirDay ==
    /\ \A k \in 1..Len(rules) :
           /\ ClockTime(rules[k].startTime) /\ ClockTime(rules[k].endTime)
    /\ \A k \in 1..Len(exceptions) :
           exceptions[k].startTime # NoString /\ exceptions[k].endTime # NoString
           => ClockTime(exceptions[k].startTime) /\ ClockTime(exceptions[k].endTime)
    /\ \A businessId \in DOMAIN business, date \in Dates :
           LET intervals == getDailyContext(businessId, date).intervals
           IN  \A i \in 1..Len(intervals) :
                   /\ DayOf(businessId, date) <= intervals[i].start
                   /\ intervals[i].end <= DayOf(businessId, date) + MinutesPerDay

\* Every appointment ends by the end of the day of the business it starts on
AppointmentsWithinOneDay ==
    \A id \in 1..Len(appointments) :
        appointments[id].endAt
          <= startOfDay(appointments[id].startAt,
                        business[appointments[id].businessId].timezone) + MinutesPerDay

\* The appointments getDailyContext fetches for a date are all the appointments
\* of the business, not CANCELLED, that share an instant with the date
DayFetchComplete ==
    \A businessId \in DOMAIN business, date \in Dates :
        \A id \in 1..Len(appointments) :
            (/\ appointments[id].businessId = businessId
             /\ Live(appointments[id])
             /\ appointments[id].startAt < DayOf(businessId, date) + MinutesPerDay
             /\ appointments[id].endAt > DayOf(businessId, date))
            => \E k \in 1..Len(getDailyContext(businessId, date).appointments) :
                   /\ getDailyContext(businessId, date).appointments[k].startAt
                        = appointments[id].startAt
                   /\ getDailyContext(businessId, date).appointments[k].endAt
                        = appointments[id].endAt

\* C27: every interval intervalFromStrings gives for a rule or exception that
\* assertValidTimeRange accepted lies within its own calendar day, the accepted
\* hours being in 0..23 and the minutes in 0..59; so every appointment starts
\* and ends on one day of its business, and the appointments fetched for a day
\* are all those that can overlap a candidate of that day.
C27_IntervalsWithinOneDay ==
    IntervalsWithinTheirDay /\ AppointmentsWithinOneDay /\ DayFetchComplete

----------------------------------------------------------------------------
(* Listing and ownership *)

\* C28: GET /appointments gives a client only appointments whose customerId is
\* the client's own id, whatever customerId the query names; it gives a
\* business user only appointments of a business that user owns, and rejects a
\* business user who names no businessId as forbidden.
C28_ListRespectsOwnership ==
    \A user \in Actors, query \in ListQueries :
        /\ (user.kind = "business" /\ query.businessId = "")
           => list(appointments, user, query).status = Forbidden
        /\ \A seq \in list(appointments, user, query).results :
               \A k \in 1..Len(seq) :
                   IF user.kind = "client"
                   THEN appointments[seq[k]].customerId = user.id
                   ELSE business[appointments[seq[k]].businessId].ownerId = user.id

\* Client C2 asks for the appointments of client C1 and receives their own, and
\* the owner of B1 receives the one of B1, which the owner of B2 is refused
C28_Witness ==
    \E i, j \in 1..Len(appointments) :
        /\ appointments[i].customerId = "C1" /\ appointments[i].businessId = "B1"
        /\ appointments[j].customerId = "C2" /\ appointments[j].businessId = "B2"
        /\ list(appointments, [id |-> "C2", kind |-> "client"],
                [businessId |-> "", customerId |-> "C1", limit |-> NoLimit]).results
             = {<<j>>}
        /\ list(appointments, [id |-> "O1", kind |-> "business"],
                [businessId |-> "B1", customerId |-> "", limit |-> NoLimit]).results
             = {<<i>>}
        /\ list(appointments, [id |-> "O2", kind |-> "business"],
                [businessId |-> "B1", customerId |-> "", limit |-> NoLimit]).status
             = Forbidden

----------------------------------------------------------------------------
(* The staff of an appointment *)

\* The business user is staff of the business: its owner, or a member by a
\* StaffMembership row
StaffOf(staffId, businessId) ==
    \/ business[businessId].ownerId = staffId
    \/ [businessId |-> businessId, userId |-> staffId] \in staffMembership

\* C29: every committed appointment that has a staffId names a staff member of
\* its own business, createAppointment rejecting a staffId that does not belong
\* to the business asked for.
C29_StaffBelongsToBusiness ==
    /\ \A id \in 1..Len(appointments) :
           appointments[id].staffId # NoStaff
           => StaffOf(appointments[id].staffId, appointments[id].businessId)
    /\ \A input \in CreateInputs :
           (/\ input.businessId \in DOMAIN business
            /\ input.staffId # NoStaff
            /\ ~StaffOf(input.staffId, input.businessId))
           => createAppointmentRead(input, input.customerId).status # Ok

----------------------------------------------------------------------------
(* Termination of the slot loop *)

\* The loop of the request over the interval, with the request's effective step
LoopOf(params, interval) ==
    Iterations(interval.start, interval, service[params.serviceId].durationMin,
               EffectiveStep(params.stepMinutes), MaxIterations)

\* floor((interval.end - interval.start - duration) / step) + 1, or 0 when the
\* service does not fit into the interval
IterationBound(params, interval) ==
    IF interval.end - interval.start < service[params.serviceId].durationMin THEN 0
    ELSE ((interval.end - interval.start - service[params.serviceId].durationMin)
             \div EffectiveStep(params.stepMinutes)) + 1

\* C30: the slot loop of getAvailability ends for every request that
\* availabilitySchema lets through (stepMinutes absent or positive): the effective
\* step, stepMinutes or 15 when stepMinutes is absent or 0, is positive, and the
\* loop over each open interval ends after at most
\* floor((interval.end - interval.start - duration) / step) + 1 iterations.
C30_SlotLoopTerminates ==
    \A params \in AvailabilityRequests :
        /\ EffectiveStep(params.stepMinutes) > 0
        /\ Answered(params)
           => LET intervals == getDailyContext(params.businessId, params.date).intervals
              IN  \A i \in 1..Len(intervals) :
                      /\ LoopOf(params, intervals[i]).done
                      /\ LoopOf(params, intervals[i]).count
                           <= IterationBound(params, intervals[i])

\* A request without stepMinutes and one with a step of an hour each run the
\* loop more than once over an open interval
C30_Witness ==
    \E p, q \in AvailabilityRequests :
        /\ p.stepMinutes = 0 /\ q.stepMinutes = 60
        /\ Answered(p) /\ Answered(q)
        /\ \E i \in 1..Len(getDailyContext(p.businessId, p.date).intervals) :
               LoopOf(p, getDailyContext(p.businessId, p.date).intervals[i]).count > 2
        /\ \E i \in 1..Len(getDailyContext(q.businessId, q.date).intervals) :
               LoopOf(q, getDailyContext(q.businessId, q.date).intervals[i]).count = 2

====
